---- MODULE Spec2Model ----
(***************************************************************************)
(* A model of ixbrlparse.core: IXBRL.__init__ (format detection, schema,   *)
(* contexts, units, non-numeric facts, numeric facts) and the two          *)
(* projections to_json and to_table, over a bounded family of document     *)
(* trees.                                                                  *)
(*                                                                         *)
(* Python values: a str is a TLA+ string; a value that may also be None or *)
(* an object is a record tagged by its Python type ("type" field).         *)
(* A document tree is a sequence of nodes in document (pre-)order; node 0  *)
(* is the BeautifulSoup object itself.  Each node carries its tag name,    *)
(* its parent, its attribute dict and the text it holds directly.          *)
(***************************************************************************)
EXTENDS Integers, Sequences, FiniteSets, TLC

VARIABLES
    doc,            \* the parsed tree handed to IXBRL.__init__ (self.soup)
    raise_on_error, \* the constructor's flag
    extracted,      \* nodes removed from the tree by Tag.extract()
    pc,             \* position inside IXBRL.__init__
    filetype,       \* IXBRL.filetype
    parser,         \* class of IXBRL.parser
    schema,         \* parser.schema
    namespaces,     \* parser.namespaces
    contexts,       \* parser.contexts
    units,          \* parser.units
    nonnumeric,     \* parser.nonnumeric
    numeric,        \* parser.numeric
    errors,         \* parser.errors
    cands,          \* the element list the running loop iterates over
    idx,            \* number of elements of cands the running loop has consumed
    raised,         \* the exception that left IXBRL.__init__, with the method it left from
    ret,            \* the value returned by the last projection call
    first           \* what an earlier IXBRL(f) on the same input gave its caller

vars == <<doc, raise_on_error, extracted, pc, filetype, parser, schema,
          namespaces, contexts, units, nonnumeric, numeric, errors, cands,
          idx, raised, ret, first>>

(***************************************************************************)
(* Python values                                                           *)
(***************************************************************************)
None == [type |-> "NoneType"]

PyStr(s) == [type |-> "str", val |-> s]

IsStr(v) == v.type = "str"

\* truth value of an Optional[str]
Truthy(v) == v.type = "str" /\ v.val # ""

\* dict.get(k) on a dict of str values
DictGet(d, k) == IF k \in DOMAIN d THEN PyStr(d[k]) ELSE None

\* dict.get(k, default)
DictGetDefault(d, k, default) == IF k \in DOMAIN d THEN d[k] ELSE default

\* an assignment that keeps the value a key already has
DictSet_KeepFirst(d, k, v) ==
    IF k \in DOMAIN d THEN d ELSE [x \in DOMAIN d \cup {k} |-> IF x = k THEN v ELSE d[x]]

\* d[k] = v
DictSet(d, k, v) == [x \in DOMAIN d \cup {k} |-> IF x = k THEN v ELSE d[x]]

EmptyDict == [x \in {} |-> None]

\* an exception on its way to the caller of IXBRL.__init__, and none
Exception(exc, method) == [exc |-> exc, in |-> method]

NoException == [exc |-> "", in |-> ""]

\* str(v) as used by str.format and str()
ToStr(v) == IF v.type = "NoneType" THEN "None" ELSE v.val

(***************************************************************************)
(* str methods                                                             *)
(***************************************************************************)
Whitespace == {" ", "\n", "\t", "\r"}

RECURSIVE lstrip(_)
lstrip(s) ==
    IF s = "" THEN ""
    ELSE IF SubSeq(s, 1, 1) \in Whitespace THEN lstrip(SubSeq(s, 2, Len(s)))
    ELSE s

RECURSIVE rstrip(_)
rstrip(s) ==
    IF s = "" THEN ""
    ELSE IF SubSeq(s, Len(s), Len(s)) \in Whitespace
         THEN rstrip(SubSeq(s, 1, Len(s) - 1))
    ELSE s

\* str.strip()
strip(s) == rstrip(lstrip(s))

\* str.replace(old, new) for a one-character old
RECURSIVE replace(_, _, _)
replace(s, old, new) ==
    IF s = "" THEN ""
    ELSE (IF SubSeq(s, 1, 1) = old THEN new ELSE SubSeq(s, 1, 1))
         \o replace(SubSeq(s, 2, Len(s)), old, new)

\* str.split(sep) for a one-character sep: a sequence of strings
RECURSIVE split(_, _)
split(s, sep) ==
    IF s = "" THEN <<"">>
    ELSE LET rest == split(SubSeq(s, 2, Len(s)), sep) IN
         IF SubSeq(s, 1, 1) = sep THEN <<"">> \o rest
         ELSE <<SubSeq(s, 1, 1) \o rest[1]>> \o Tail(rest)

\* sep.join(list)
RECURSIVE join(_, _)
join(sep, list) ==
    IF list = <<>> THEN ""
    ELSE IF Len(list) = 1 THEN list[1]
    ELSE list[1] \o sep \o join(sep, Tail(list))

\* s.startswith(p)
startswith(s, p) == Len(s) >= Len(p) /\ SubSeq(s, 1, Len(p)) = p

\* c in s, for a one-character c
RECURSIVE contains(_, _)
contains(s, c) ==
    IF s = "" THEN FALSE
    ELSE SubSeq(s, 1, 1) = c \/ contains(SubSeq(s, 2, Len(s)), c)

(***************************************************************************)
(* The tree and the BeautifulSoup queries the parser makes on it.  Every   *)
(* query takes ex, the set of nodes extract() has removed so far.          *)
(***************************************************************************)
Soup == 0

Nodes == 1 .. Len(doc)

\* n is a (proper) descendant of a; an extracted node has no parent
RECURSIVE IsDescendant(_, _, _)
IsDescendant(ex, n, a) ==
    IF n \in ex THEN FALSE
    ELSE doc[n].parent = a
         \/ (doc[n].parent # Soup /\ IsDescendant(ex, doc[n].parent, a))

\* the search matches a tag by its name (Tag.name)
Matches(n, alias) == doc[n].tag = alias

MatchesAny(n, aliases) == \E a \in aliases : Matches(n, a)

\* a set of nodes as a sequence in document order
InOrder(S) == SelectSeq([i \in 1 .. Len(doc) |-> i], LAMBDA x : x \in S)

\* s.find_all(aliases): every matching descendant, in document order
find_all(ex, s, aliases) ==
    InOrder({n \in Nodes : IsDescendant(ex, n, s) /\ MatchesAny(n, aliases)})

\* s.find_all(True) / s.findChildren(): every descendant
findChildren(ex, s) == InOrder({n \in Nodes : IsDescendant(ex, n, s)})

\* s.find(aliases): the first match, or 0 for None
find(ex, s, aliases) ==
    LET r == find_all(ex, s, aliases) IN IF r = <<>> THEN 0 ELSE r[1]

\* soup.find(id=v): the first element whose id attribute is v, or 0
find_id(ex, v) ==
    LET r == InOrder({n \in Nodes : /\ IsDescendant(ex, n, Soup)
                                    /\ "id" \in DOMAIN doc[n].attrs
                                    /\ doc[n].attrs["id"] = v})
    IN IF r = <<>> THEN 0 ELSE r[1]

\* Tag.text: the strings of the element and of its descendants, in order
RECURSIVE TextOf(_, _, _)
TextOf(ex, s, order) ==
    IF order = <<>> THEN ""
    ELSE (IF order[1] = s \/ IsDescendant(ex, order[1], s)
          THEN doc[order[1]].text ELSE "")
         \o TextOf(ex, s, Tail(order))

text(ex, s) == TextOf(ex, s, [i \in 1 .. Len(doc) |-> i])

\* Tag.get(k) and Tag.attrs
attrs(s) == doc[s].attrs

get(s, k) == DictGet(doc[s].attrs, k)

(***************************************************************************)
(* BaseParser                                                              *)
(***************************************************************************)
_get_tag_attribute(ex, s, tag, attribute) ==
    LET tag_contents == find(ex, s, tag) IN
    IF tag_contents # 0 /\ IsStr(get(tag_contents, attribute))
    THEN PyStr(strip(get(tag_contents, attribute).val))
    ELSE None

_get_tag_text(ex, s, tag) ==
    LET tag_contents == find(ex, s, tag) IN
    IF tag_contents # 0 THEN PyStr(strip(text(ex, tag_contents))) ELSE None

_get_tag_children(ex, s, tag) ==
    LET tag_contents == find(ex, s, tag) IN
    IF tag_contents # 0 THEN findChildren(ex, tag_contents) ELSE <<>>

(***************************************************************************)
(* ixbrlparse.components: the records the parser builds.  What makes a     *)
(* constructor raise is taken from the specification's data model: a       *)
(* context period is a date-string, a numeric fact carries a numeral.      *)
(***************************************************************************)
Digits == {"0", "1", "2", "3", "4", "5", "6", "7", "8", "9"}

RECURSIVE AllDigits(_)
AllDigits(s) ==
    IF s = "" THEN TRUE
    ELSE SubSeq(s, 1, 1) \in Digits /\ AllDigits(SubSeq(s, 2, Len(s)))

\* a date-string: YYYY-MM-DD
IsDate(s) ==
    /\ Len(s) = 10
    /\ SubSeq(s, 5, 5) = "-" /\ SubSeq(s, 8, 8) = "-"
    /\ AllDigits(SubSeq(s, 1, 4) \o SubSeq(s, 6, 7) \o SubSeq(s, 9, 10))

\* ixbrlContext(...) raises on a period field that is not a date-string
ixbrlContextRaises(instant, startdate, enddate) ==
    \E d \in {instant, startdate, enddate} : Truthy(d) /\ ~IsDate(d.val)

ixbrlContext(_id, entity, segments, instant, startdate, enddate) ==
    [type |-> "ixbrlContext", id |-> _id, entity |-> entity,
     segments |-> segments,
     instant |-> IF Truthy(instant) THEN instant ELSE None,
     startdate |-> IF Truthy(startdate) THEN startdate ELSE None,
     enddate |-> IF Truthy(enddate) THEN enddate ELSE None]

\* a fact name "prefix:local" gives schema "prefix" and name "local"
RECURSIVE BeforeColon(_)
BeforeColon(s) ==
    IF s = "" \/ SubSeq(s, 1, 1) = ":" THEN ""
    ELSE SubSeq(s, 1, 1) \o BeforeColon(SubSeq(s, 2, Len(s)))

SchemaOf(name) == IF contains(name, ":") THEN BeforeColon(name) ELSE "unknown"

NameOf(name) ==
    IF contains(name, ":")
    THEN SubSeq(name, Len(BeforeColon(name)) + 2, Len(name))
    ELSE name

ixbrlNonNumeric(context, name, format_, value, soup_tag) ==
    [type |-> "ixbrlNonNumeric", context |-> context, name |-> NameOf(name),
     schema |-> SchemaOf(name), format |-> format_, value |-> value,
     soup_tag |-> soup_tag]

\* ixbrlNumeric(...) raises on a text that is not a numeral
ixbrlNumericRaises(txt) == strip(txt) = "" \/ ~AllDigits(strip(txt))

ixbrlNumeric(name, txt, context, unit, soup_tag, kwargs) ==
    [type |-> "ixbrlNumeric", context |-> context, name |-> NameOf(name),
     schema |-> SchemaOf(name), unit |-> unit, text |-> txt,
     value |-> strip(txt), soup_tag |-> soup_tag, attrs |-> kwargs]

\* an error record that keeps the cause and drops the element
ixbrlError_NoElement(error, element) ==
    [type |-> "ixbrlError", error |-> error, element |-> 0]

ixbrlError(error, element) ==
    [type |-> "ixbrlError", error |-> error, element |-> element]

(***************************************************************************)
(* IXBRL._get_parser and IXBRLParser.__init__                              *)
(***************************************************************************)
\* the parser class _get_parser picks, "" when it raises IXBRLParseError
ParserFor(ex) ==
    IF find(ex, Soup, {"html"}) # 0 THEN "IXBRLParser"
    ELSE IF find(ex, Soup, {"xbrl"}) # 0 THEN "XBRLParser"
    ELSE ""

root_element == IF parser = "XBRLParser" THEN "xbrl" ELSE "html"

_get_parser ==
    /\ pc = "Unparsed"
    /\ IF ParserFor(extracted) = ""
       THEN /\ pc' = "Failed"
            /\ raised' = Exception("IXBRLParseError", "_get_parser")
            /\ UNCHANGED <<filetype, parser>>
       ELSE /\ pc' = "FormatDetected"
            /\ parser' = ParserFor(extracted)
            /\ filetype' = IF ParserFor(extracted) = "IXBRLParser"
                           THEN "ixbrl" ELSE "xbrl"
            /\ UNCHANGED raised
    /\ UNCHANGED <<first, doc, raise_on_error, extracted, schema, namespaces,
                   contexts, units, nonnumeric, numeric, errors, cands, idx,
                   ret>>

(***************************************************************************)
(* IXBRLParser._get_schema                                                 *)
(***************************************************************************)
SchemaAliases == {"link:schemaRef", "schemaRef", "link:schemaref", "schemaref"}

SchemaRef(ex) ==
    LET schema_tag == find(ex, Soup, SchemaAliases) IN
    IF schema_tag # 0 /\ Truthy(get(schema_tag, "xlink:href"))
    THEN PyStr(strip(attrs(schema_tag)["xlink:href"]))
    ELSE None

Namespaces(ex) ==
    LET namespace_tag == find(ex, Soup, {root_element}) IN
    IF namespace_tag = 0 THEN EmptyDict
    ELSE [k \in {a \in DOMAIN attrs(namespace_tag) :
                    startswith(a, "xmlns") \/ contains(a, ":")}
             |-> split(attrs(namespace_tag)[k], " ")]

_get_schema ==
    /\ pc = "FormatDetected"
    /\ schema' = SchemaRef(extracted)
    /\ namespaces' = Namespaces(extracted)
    /\ pc' = "SchemaLoaded"
    /\ UNCHANGED <<first, doc, raise_on_error, extracted, filetype, parser, contexts,
                   units, nonnumeric, numeric, errors, cands, idx, raised, ret>>

(***************************************************************************)
(* IXBRLParser._get_contexts / XBRLParser._get_context_elements            *)
(***************************************************************************)
_get_context_elements(ex) ==
    IF parser = "XBRLParser"
    THEN find_all(ex, Soup, {"xbrli:context", "context"})
    ELSE LET resources == find(ex, Soup, {"ix:resources", "resources"}) IN
         IF resources # 0
         THEN find_all(ex, resources, {"xbrli:context", "context"})
         ELSE <<>>

\* one segment record: {"tag": x.name, "value": x.text.strip(), **x.attrs}
Segment(ex, x) ==
    LET base == [tag |-> doc[x].tag, value |-> strip(text(ex, x))] IN
    [k \in DOMAIN base \cup DOMAIN attrs(x) |->
        IF k \in DOMAIN attrs(x) THEN attrs(x)[k] ELSE base[k]]

Segments(ex, s) ==
    LET children == _get_tag_children(ex, s, {"xbrli:segment", "segment"}) IN
    [i \in 1 .. Len(children) |-> Segment(ex, children[i])]

ContextInstant(ex, s) == _get_tag_text(ex, s, {"xbrli:instant", "instant"})
ContextStart(ex, s) == _get_tag_text(ex, s, {"xbrli:startDate", "startDate"})
ContextEnd(ex, s) == _get_tag_text(ex, s, {"xbrli:endDate", "endDate"})

BuildContext(ex, s) ==
    ixbrlContext(
        attrs(s)["id"],
        [scheme |-> _get_tag_attribute(ex, s, {"xbrli:identifier", "identifier"}, "scheme"),
         identifier |-> _get_tag_text(ex, s, {"xbrli:identifier", "identifier"})],
        Segments(ex, s),
        ContextInstant(ex, s), ContextStart(ex, s), ContextEnd(ex, s))

ContextRaises(ex, s) ==
    ixbrlContextRaises(ContextInstant(ex, s), ContextStart(ex, s), ContextEnd(ex, s))

\* an except clause that always re-raises, and one that never does
Reraise_Always(flag) == TRUE

Reraise_Never(flag) == FALSE

\* the except clause of a loop: the error is appended, then re-raised when
\* raise_on_error is set
Reraise(flag) == flag

_get_contexts_begin ==
    /\ pc = "SchemaLoaded"
    /\ contexts' = EmptyDict
    /\ cands' = _get_context_elements(extracted)
    /\ idx' = 0
    /\ pc' = "InContexts"
    /\ UNCHANGED <<first, doc, raise_on_error, extracted, filetype, parser, schema,
                   namespaces, units, nonnumeric, numeric, errors, raised, ret>>

_get_contexts_step ==
    /\ pc = "InContexts"
    /\ idx < Len(cands)
    /\ LET s == cands[idx + 1] IN
       IF ~Truthy(get(s, "id"))
       THEN /\ idx' = idx + 1
            /\ UNCHANGED <<contexts, errors, pc, raised>>
       ELSE IF ~ContextRaises(extracted, s)
       THEN /\ contexts' = DictSet(contexts, attrs(s)["id"], BuildContext(extracted, s))
            /\ idx' = idx + 1
            /\ UNCHANGED <<errors, pc, raised>>
       ELSE /\ errors' = Append(errors, ixbrlError("ValueError", s))
            /\ IF Reraise(raise_on_error)
               THEN pc' = "Failed" /\ raised' = Exception("ValueError", "_get_contexts") /\ UNCHANGED idx
               ELSE idx' = idx + 1 /\ UNCHANGED <<pc, raised>>
            /\ UNCHANGED contexts
    /\ UNCHANGED <<first, doc, raise_on_error, extracted, filetype, parser, schema,
                   namespaces, units, nonnumeric, numeric, cands, ret>>

(***************************************************************************)
(* IXBRLParser._get_units / XBRLParser._get_unit_elements                  *)
(***************************************************************************)
_get_unit_elements(ex) ==
    IF parser = "XBRLParser"
    THEN find_all(ex, Soup, {"xbrli:unit", "unit"})
    ELSE LET resources == find(ex, Soup, {"ix:resources", "resources"}) IN
         IF resources # 0
         THEN find_all(ex, resources, {"xbrli:unit", "unit"})
         ELSE <<>>

\* the value stored for one unit element
UnitMeasure(ex, s) == _get_tag_text(ex, s, {"xbrli:measure", "measure"})

_get_units_begin ==
    /\ pc = "InContexts"
    /\ idx = Len(cands)
    /\ units' = EmptyDict
    /\ cands' = _get_unit_elements(extracted)
    /\ idx' = 0
    /\ pc' = "InUnits"
    /\ UNCHANGED <<first, doc, raise_on_error, extracted, filetype, parser, schema,
                   namespaces, contexts, nonnumeric, numeric, errors, raised,
                   ret>>

_get_units_step ==
    /\ pc = "InUnits"
    /\ idx < Len(cands)
    /\ LET s == cands[idx + 1] IN
       IF IsStr(get(s, "id"))
       THEN units' = DictSet(units, attrs(s)["id"], UnitMeasure(extracted, s))
       ELSE UNCHANGED units
    /\ idx' = idx + 1
    /\ UNCHANGED <<first, doc, raise_on_error, extracted, pc, filetype, parser,
                   schema, namespaces, contexts, nonnumeric, numeric, errors,
                   cands, raised, ret>>

(***************************************************************************)
(* Resolution of a fact's references against the two tables                *)
(***************************************************************************)
\* a lookup that leaves an unknown reference unresolved: self.contexts.get(ref)
ResolveContext_NoDefault(ref) == DictGetDefault(contexts, ref, None)

\* self.contexts.get(ref, ref)
ResolveContext(ref) == DictGetDefault(contexts, ref, PyStr(ref))

\* self.units.get(ref, ref)
ResolveUnit(ref) == DictGetDefault(units, ref, PyStr(ref))

(***************************************************************************)
(* IXBRLParser._get_tag_continuation                                       *)
(***************************************************************************)
\* an assembly that trims every piece: start_str += s.text.strip()
AppendText_Trimmed(start_str, t) == start_str \o strip(t)

\* start_str += s.text
AppendText(start_str, t) == start_str \o t

\* a walk that never goes on
ContinuationTag_Stops(ex, s) == 0

\* the element the walk goes on with, 0 when it stops at s
ContinuationTag(ex, s) ==
    IF ~Truthy(get(s, "continuedAt")) THEN 0
    ELSE LET continuation_tag == find_id(ex, attrs(s)["continuedAt"]) IN
         IF continuation_tag # 0 /\ doc[continuation_tag].tag = "continuation"
         THEN continuation_tag
         ELSE 0

\* The recursion has no guard: on a cycle it ends in Python's RecursionError.
\* A walk that visits more elements than the tree holds has met a cycle.
RECURSIVE Continuation(_, _, _, _)
Continuation(ex, s, start_str, depth) ==
    IF depth > Len(doc) THEN [raised |-> TRUE, val |-> ""]
    ELSE LET str == AppendText(start_str, text(ex, s)) IN
         IF ContinuationTag(ex, s) # 0
         THEN Continuation(ex, ContinuationTag(ex, s), str, depth + 1)
         ELSE [raised |-> FALSE, val |-> str]

_get_tag_continuation(ex, s) == Continuation(ex, s, "", 1)

(***************************************************************************)
(* IXBRLParser._get_nonnumeric                                             *)
(***************************************************************************)
\* text.strip().replace("\n", "")
FactValue(t) == replace(strip(t), "\n", "")

\* the tree after exclusion.extract()
Exclude(ex, s) ==
    LET exclusion == find(ex, s, {"exclude"}) IN
    IF exclusion # 0 THEN ex \cup {exclusion} ELSE ex

\* the text the fact value is computed from, in the tree ex
FactText(ex, s) ==
    IF Truthy(get(s, "continuedAt")) THEN _get_tag_continuation(ex, s)
    ELSE [raised |-> FALSE, val |-> text(ex, s)]

\* the outcome of the try block for element s: the exception it raises ("" when
\* none), the tree it leaves and the fact it appends
TryNonnumeric(ex, s) ==
    IF "contextRef" \notin DOMAIN attrs(s)
    THEN [exc |-> "KeyError", ex |-> ex, fact |-> None]
    ELSE LET ex2 == Exclude(ex, s)
             t == FactText(ex2, s) IN
         IF t.raised THEN [exc |-> "RecursionError", ex |-> ex2, fact |-> None]
         ELSE IF "name" \notin DOMAIN attrs(s)
         THEN [exc |-> "KeyError", ex |-> ex2, fact |-> None]
         ELSE [exc |-> "", ex |-> ex2,
               fact |-> ixbrlNonNumeric(ResolveContext(attrs(s)["contextRef"]),
                                        attrs(s)["name"], get(s, "format"),
                                        FactValue(t.val), s)]

\* a non-numeric pass that starts as soon as the contexts are built, leaving
\* the unit stage out
_get_nonnumeric_begin_BeforeUnits ==
    /\ pc = "InContexts"
    /\ idx = Len(cands)
    /\ nonnumeric' = <<>>
    /\ cands' = find_all(extracted, Soup, {"nonNumeric"})
    /\ idx' = 0
    /\ pc' = "InNonNumeric"
    /\ UNCHANGED <<first, doc, raise_on_error, extracted, filetype, parser, schema,
                   namespaces, contexts, units, numeric, errors, raised, ret>>

_get_nonnumeric_begin ==
    /\ pc = "InUnits"
    /\ idx = Len(cands)
    /\ nonnumeric' = <<>>
    /\ cands' = IF parser = "XBRLParser"
                THEN (LET resource == find(extracted, Soup, {root_element}) IN
                      IF resource # 0 THEN findChildren(extracted, resource) ELSE <<>>)
                ELSE find_all(extracted, Soup, {"nonNumeric"})
    /\ idx' = 0
    /\ pc' = "InNonNumeric"
    /\ UNCHANGED <<first, doc, raise_on_error, extracted, filetype, parser, schema,
                   namespaces, contexts, units, numeric, errors, raised, ret>>

\* a loop that walks the live tree instead of the list find_all returned: a
\* candidate that a removal has detached is no longer met
_get_nonnumeric_step_Live ==
    /\ pc = "InNonNumeric"
    /\ parser = "IXBRLParser"
    /\ idx < Len(cands)
    /\ LET s == cands[idx + 1]
           r == TryNonnumeric(extracted, s) IN
       /\ extracted' = r.ex
       /\ cands' = SelectSeq(cands, LAMBDA n : n <= s \/ IsDescendant(r.ex, n, Soup))
       /\ IF r.exc = ""
          THEN /\ nonnumeric' = Append(nonnumeric, r.fact)
               /\ idx' = idx + 1
               /\ UNCHANGED <<errors, pc, raised>>
          ELSE /\ errors' = Append(errors, ixbrlError(r.exc, s))
               /\ IF Reraise(raise_on_error)
                  THEN pc' = "Failed" /\ raised' = Exception(r.exc, "_get_nonnumeric") /\ UNCHANGED idx
                  ELSE idx' = idx + 1 /\ UNCHANGED <<pc, raised>>
               /\ UNCHANGED nonnumeric
    /\ UNCHANGED <<first, doc, raise_on_error, filetype, parser, schema, namespaces,
                   contexts, units, numeric, ret>>

_get_nonnumeric_step ==
    /\ pc = "InNonNumeric"
    /\ parser = "IXBRLParser"
    /\ idx < Len(cands)
    /\ LET s == cands[idx + 1]
           r == TryNonnumeric(extracted, s) IN
       /\ extracted' = r.ex
       /\ IF r.exc = ""
          THEN /\ nonnumeric' = Append(nonnumeric, r.fact)
               /\ idx' = idx + 1
               /\ UNCHANGED <<errors, pc, raised>>
          ELSE /\ errors' = Append(errors, ixbrlError(r.exc, s))
               /\ IF Reraise(raise_on_error)
                  THEN pc' = "Failed" /\ raised' = Exception(r.exc, "_get_nonnumeric") /\ UNCHANGED idx
                  ELSE idx' = idx + 1 /\ UNCHANGED <<pc, raised>>
               /\ UNCHANGED nonnumeric
    /\ UNCHANGED <<first, doc, raise_on_error, filetype, parser, schema, namespaces,
                   contexts, units, numeric, cands, ret>>

(***************************************************************************)
(* XBRLParser._get_nonnumeric                                              *)
(***************************************************************************)
\* a filter that looks at the context reference only
XbrlIsNonnumeric_Loose(s) == Truthy(get(s, "contextRef"))

\* not (not s.get("contextRef") or s.get("unitRef"))
XbrlIsNonnumeric(s) == Truthy(get(s, "contextRef")) /\ ~Truthy(get(s, "unitRef"))

xbrl_get_nonnumeric_step ==
    /\ pc = "InNonNumeric"
    /\ parser = "XBRLParser"
    /\ idx < Len(cands)
    /\ LET s == cands[idx + 1] IN
       IF XbrlIsNonnumeric(s)
       THEN nonnumeric' = Append(nonnumeric,
                ixbrlNonNumeric(ResolveContext(attrs(s)["contextRef"]),
                                doc[s].tag, get(s, "format"),
                                FactValue(text(extracted, s)), s))
       ELSE UNCHANGED nonnumeric
    /\ idx' = idx + 1
    /\ UNCHANGED <<first, doc, raise_on_error, extracted, pc, filetype, parser,
                   schema, namespaces, contexts, units, numeric, errors, cands,
                   raised, ret>>

(***************************************************************************)
(* IXBRLParser._get_numeric                                                *)
(***************************************************************************)
\* f(k=..., **d) raises TypeError when d repeats an explicit keyword
RepeatsKeyword(d, explicit) == DOMAIN d \cap explicit # {}

\* the outcome of the try block for element s
TryNumeric(ex, s) ==
    IF "contextRef" \notin DOMAIN attrs(s) \/ "unitRef" \notin DOMAIN attrs(s)
    THEN [exc |-> "KeyError", fact |-> None]
    ELSE IF RepeatsKeyword(attrs(s), {"text", "context", "unit", "soup_tag"})
    THEN [exc |-> "TypeError", fact |-> None]
    ELSE IF ixbrlNumericRaises(text(ex, s))
    THEN [exc |-> "ValueError", fact |-> None]
    ELSE [exc |-> "",
          fact |-> ixbrlNumeric(DictGetDefault(attrs(s), "name", ""),
                                text(ex, s),
                                ResolveContext(attrs(s)["contextRef"]),
                                ResolveUnit(attrs(s)["unitRef"]),
                                s, attrs(s))]

\* a numeric pass that starts with an empty errors list, as it does with its
\* fact list
_get_numeric_begin_ClearsErrors ==
    /\ pc = "InNonNumeric"
    /\ idx = Len(cands)
    /\ numeric' = <<>>
    /\ cands' = IF parser = "XBRLParser"
                THEN (LET resource == find(extracted, Soup, {root_element}) IN
                      IF resource # 0 THEN findChildren(extracted, resource) ELSE <<>>)
                ELSE find_all(extracted, Soup, {"nonFraction"})
    /\ idx' = 0
    /\ errors' = <<>>
    /\ pc' = "InNumeric"
    /\ UNCHANGED <<first, doc, raise_on_error, extracted, filetype, parser, schema,
                   namespaces, contexts, units, nonnumeric, raised, ret>>

_get_numeric_begin ==
    /\ pc = "InNonNumeric"
    /\ idx = Len(cands)
    /\ numeric' = <<>>
    /\ cands' = IF parser = "XBRLParser"
                THEN (LET resource == find(extracted, Soup, {root_element}) IN
                      IF resource # 0 THEN findChildren(extracted, resource) ELSE <<>>)
                ELSE find_all(extracted, Soup, {"nonFraction"})
    /\ idx' = 0
    /\ pc' = "InNumeric"
    /\ UNCHANGED <<first, doc, raise_on_error, extracted, filetype, parser, schema,
                   namespaces, contexts, units, nonnumeric, errors, raised, ret>>

_get_numeric_step ==
    /\ pc = "InNumeric"
    /\ parser = "IXBRLParser"
    /\ idx < Len(cands)
    /\ LET s == cands[idx + 1]
           r == TryNumeric(extracted, s) IN
       IF r.exc = ""
       THEN /\ numeric' = Append(numeric, r.fact)
            /\ idx' = idx + 1
            /\ UNCHANGED <<errors, pc, raised>>
       ELSE /\ errors' = Append(errors, ixbrlError(r.exc, s))
            /\ IF Reraise(raise_on_error)
               THEN pc' = "Failed" /\ raised' = Exception(r.exc, "_get_numeric") /\ UNCHANGED idx
               ELSE idx' = idx + 1 /\ UNCHANGED <<pc, raised>>
            /\ UNCHANGED numeric
    /\ UNCHANGED <<first, doc, raise_on_error, extracted, filetype, parser, schema,
                   namespaces, contexts, units, nonnumeric, cands, ret>>

(***************************************************************************)
(* XBRLParser._get_numeric                                                 *)
(***************************************************************************)
XbrlIsNumeric(s) == Truthy(get(s, "contextRef")) /\ Truthy(get(s, "unitRef"))

XbrlTryNumeric(ex, s) ==
    IF RepeatsKeyword(attrs(s), {"name", "text", "context", "unit", "soup_tag"})
    THEN [exc |-> "TypeError", fact |-> None]
    ELSE IF ixbrlNumericRaises(text(ex, s))
    THEN [exc |-> "ValueError", fact |-> None]
    ELSE [exc |-> "",
          fact |-> ixbrlNumeric(doc[s].tag, text(ex, s),
                                ResolveContext(attrs(s)["contextRef"]),
                                ResolveUnit(attrs(s)["unitRef"]),
                                s, attrs(s))]

\* this loop records a plain dict, not an ixbrlError
XbrlNumericError(error, element) ==
    [type |-> "dict", error |-> error, element |-> element]

xbrl_get_numeric_step ==
    /\ pc = "InNumeric"
    /\ parser = "XBRLParser"
    /\ idx < Len(cands)
    /\ LET s == cands[idx + 1]
           r == XbrlTryNumeric(extracted, s) IN
       IF ~XbrlIsNumeric(s)
       THEN /\ idx' = idx + 1
            /\ UNCHANGED <<numeric, errors, pc, raised>>
       ELSE IF r.exc = ""
       THEN /\ numeric' = Append(numeric, r.fact)
            /\ idx' = idx + 1
            /\ UNCHANGED <<errors, pc, raised>>
       ELSE /\ errors' = Append(errors, XbrlNumericError(r.exc, s))
            /\ IF Reraise(raise_on_error)
               THEN pc' = "Failed" /\ raised' = Exception(r.exc, "_get_numeric") /\ UNCHANGED idx
               ELSE idx' = idx + 1 /\ UNCHANGED <<pc, raised>>
            /\ UNCHANGED numeric
    /\ UNCHANGED <<first, doc, raise_on_error, extracted, filetype, parser, schema,
                   namespaces, contexts, units, nonnumeric, cands, ret>>

\* IXBRL.__init__ returns
Return ==
    /\ pc = "InNumeric"
    /\ idx = Len(cands)
    /\ pc' = "Ready"
    /\ UNCHANGED <<first, doc, raise_on_error, extracted, filetype, parser, schema,
                   namespaces, contexts, units, nonnumeric, numeric, errors,
                   cands, idx, raised, ret>>

(***************************************************************************)
(* IXBRL.to_json                                                           *)
(***************************************************************************)
\* the components' to_json: the record without its tree element
FactToJson(a) == [k \in DOMAIN a \ {"soup_tag", "type"} |-> a[k]]

ContextToJson(ct) == [k \in DOMAIN ct \ {"type"} |-> ct[k]]

JsonOf ==
    [schema |-> schema,
     namespaces |-> namespaces,
     contexts |-> [c \in DOMAIN contexts |-> ContextToJson(contexts[c])],
     units |-> units,
     nonnumeric |-> [i \in 1 .. Len(nonnumeric) |-> FactToJson(nonnumeric[i])],
     numeric |-> [i \in 1 .. Len(numeric) |-> FactToJson(numeric[i])],
     errors |-> Len(errors)]

\* a dump that hands the errors over and empties the list
to_json_Draining ==
    /\ pc = "Ready"
    /\ errors' = <<>>
    /\ ret' = [call |-> "to_json", fields |-> "", value |-> JsonOf]
    /\ UNCHANGED <<first, doc, raise_on_error, extracted, pc, filetype, parser,
                   schema, namespaces, contexts, units, nonnumeric, numeric,
                   cands, idx, raised>>

to_json ==
    /\ pc = "Ready"
    /\ ret' = [call |-> "to_json", fields |-> "", value |-> JsonOf]
    /\ UNCHANGED <<first, doc, raise_on_error, extracted, pc, filetype, parser,
                   schema, namespaces, contexts, units, nonnumeric, numeric,
                   errors, cands, idx, raised>>

(***************************************************************************)
(* IXBRL.to_table                                                          *)
(***************************************************************************)
\* a selector whose "all" puts the numeric facts first
Values_NumericFirst(fields) ==
    IF fields = "nonnumeric" THEN nonnumeric
    ELSE IF fields = "numeric" THEN numeric
    ELSE numeric \o nonnumeric

Values(fields) ==
    IF fields = "nonnumeric" THEN nonnumeric
    ELSE IF fields = "numeric" THEN numeric
    ELSE nonnumeric \o numeric

IsContext(c) == c.type = "ixbrlContext"

\* "{} {} {}".format(s.get("tag", ""), s.get("dimension"), s.get("value")).strip()
SegmentText(s) ==
    strip(DictGetDefault(s, "tag", "") \o " " \o ToStr(DictGet(s, "dimension"))
          \o " " \o ToStr(DictGet(s, "value")))

\* segment columns that leave a fact without segments without any column
SegmentColumns_NoDefault(v) ==
    IF IsContext(v.context)
    THEN [i \in 0 .. Len(v.context.segments) - 1 |->
             SegmentText(v.context.segments[i + 1])]
    ELSE [i \in {} |-> ""]

\* the segment:i columns of a row, keyed by i
SegmentColumns(v) ==
    IF IsContext(v.context) /\ v.context.segments # <<>>
    THEN [i \in 0 .. Len(v.context.segments) - 1 |->
             SegmentText(v.context.segments[i + 1])]
    ELSE [i \in {0} |-> ""]

\* str(date) if the context has the date, else None
DateColumn(v, field) ==
    IF IsContext(v.context) /\ Truthy(v.context[field])
    THEN PyStr(ToStr(v.context[field]))
    ELSE None

Row(v) ==
    [schema |-> join(" ", DictGetDefault(namespaces, "xmlns:" \o v.schema, <<v.schema>>)),
     name |-> v.name,
     value |-> v.value,
     unit |-> IF "unit" \in DOMAIN v THEN v.unit ELSE None,
     instant |-> DateColumn(v, "instant"),
     startdate |-> DateColumn(v, "startdate"),
     enddate |-> DateColumn(v, "enddate"),
     segment |-> SegmentColumns(v)]

TableOf(fields) ==
    LET values == Values(fields) IN [i \in 1 .. Len(values) |-> Row(values[i])]

Fields == {"numeric", "nonnumeric", "all"}

to_table ==
    /\ pc = "Ready"
    /\ \E fields \in Fields :
          ret' = [call |-> "to_table", fields |-> fields, value |-> TableOf(fields)]
    /\ UNCHANGED <<first, doc, raise_on_error, extracted, pc, filetype, parser,
                   schema, namespaces, contexts, units, nonnumeric, numeric,
                   errors, cands, idx, raised>>

(***************************************************************************)
(* The input documents.  An item is a subtree: a sequence of nodes whose   *)
(* parent is relative to the item (0: the container the item is put in).   *)
(***************************************************************************)
MaxContexts == 3
MaxUnits == 1
MaxFacts == 2

Node(tag, parent, as, txt) ==
    [tag |-> tag, parent |-> parent, attrs |-> as, text |-> txt]

NoAttrs == [x \in {} |-> ""]

\* the items, one after the other, under container; base nodes precede them
RECURSIVE Place(_, _, _)
Place(items, container, base) ==
    IF items = <<>> THEN <<>>
    ELSE LET it == items[1] IN
         [k \in 1 .. Len(it) |->
             [it[k] EXCEPT !.parent = IF @ = 0 THEN container ELSE @ + base]]
         \o Place(Tail(items), container, base + Len(it))

RECURSIVE Size(_)
Size(items) == IF items = <<>> THEN 0 ELSE Len(items[1]) + Size(Tail(items))

\* sequences over S of length at most n
SeqsUpTo(S, n) == UNION {[1 .. k -> S] : k \in 0 .. n}

CtxVariants == {"seg", "plain", "bad", "noid"}

CtxItem(id, variant) ==
    IF variant = "seg"
    THEN <<Node("context", 0, [id |-> id], "\n "),
           Node("identifier", 1, [scheme |-> " http://ch "], " 0123 "),
           Node("segment", 1, NoAttrs, ""),
           Node("explicitMember", 3, [dimension |-> "d1"], " v1 "),
           Node("instant", 1, NoAttrs, "2020-12-31\n")>>
    ELSE IF variant = "nodim"
    THEN <<Node("context", 0, [id |-> id], ""),
           Node("segment", 1, NoAttrs, ""),
           Node("typedMember", 2, NoAttrs, "v2"),
           Node("explicitMember", 2, [dimension |-> "d3"], "v3")>>
    ELSE IF variant = "plain"
    THEN <<Node("context", 0, [id |-> id], ""),
           Node("startDate", 1, NoAttrs, "2020-01-01"),
           Node("endDate", 1, NoAttrs, "2020-12-31")>>
    ELSE IF variant = "bad"
    THEN <<Node("context", 0, [id |-> id], ""),
           Node("instant", 1, NoAttrs, "31/12/2020")>>
    ELSE <<Node("context", 0, NoAttrs, ""),
           Node("instant", 1, NoAttrs, "2020-12-31")>>

\* the i-th context element is c<i> when the ids are distinct, c1 otherwise
CtxSection(variants, distinct) ==
    [i \in 1 .. Len(variants) |->
        CtxItem(IF distinct THEN "c" \o ToString(i) ELSE "c1", variants[i])]

CtxSections ==
    {CtxSection(vs, d) : vs \in SeqsUpTo(CtxVariants, MaxContexts), d \in BOOLEAN}

BaseContexts == CtxSection(<<"seg", "plain", "nodim">>, TRUE)

UnitItems ==
    {<<Node("unit", 0, [id |-> "u1"], ""), Node("measure", 1, NoAttrs, " GBP ")>>,
     <<Node("unit", 0, [id |-> "u1"], "")>>,
     <<Node("unit", 0, [id |-> "u2"], ""), Node("measure", 1, NoAttrs, "shares")>>,
     <<Node("unit", 0, NoAttrs, ""), Node("measure", 1, NoAttrs, "EUR")>>}

UnitSections == SeqsUpTo(UnitItems, MaxUnits)

BaseUnits ==
    <<<<Node("unit", 0, [id |-> "u1"], ""), Node("measure", 1, NoAttrs, " GBP ")>>,
      <<Node("unit", 0, [id |-> "u2"], "")>>>>

InlineFactItems ==
    {<<Node("nonNumeric", 0, [name |-> "uk:Name", contextRef |-> "c1", format |-> "f"], " A\nB ")>>,
     <<Node("nonNumeric", 0, [name |-> "Note", contextRef |-> "c9"], "B")>>,
     <<Node("nonNumeric", 0, [name |-> "uk:Name"], "C")>>,
     <<Node("nonNumeric", 0, [contextRef |-> "c1"], "D"),
       Node("exclude", 1, NoAttrs, "X")>>,
     <<Node("nonNumeric", 0, [name |-> "uk:Text", contextRef |-> "c2", continuedAt |-> "k1"], "A"),
       Node("continuation", 0, [id |-> "k1", continuedAt |-> "k2"], "-B"),
       Node("continuation", 0, [id |-> "k2"], "-C\n")>>,
     <<Node("nonNumeric", 0, [name |-> "uk:Text", contextRef |-> "c3", continuedAt |-> "k2"], " Z ")>>,
     <<Node("nonNumeric", 0, [name |-> "uk:Text", contextRef |-> "c1", continuedAt |-> "k4"], "A"),
       Node("div", 0, [id |-> "k4"], "-X")>>,
     <<Node("nonNumeric", 0, [name |-> "uk:Text", contextRef |-> "c1", continuedAt |-> "k5"], "A"),
       Node("continuation", 0, [id |-> "k5", continuedAt |-> "k5"], "-B")>>,
     <<Node("nonNumeric", 0, [name |-> "uk:Text", contextRef |-> "c2"], "A"),
       Node("exclude", 1, NoAttrs, "X"),
       Node("nonFraction", 2, [name |-> "uk:In", contextRef |-> "c1", unitRef |-> "u1"], "7"),
       Node("nonNumeric", 2, [name |-> "uk:Deep", contextRef |-> "c1"], "N"),
       Node("exclude", 1, NoAttrs, "Y")>>,
     <<Node("nonFraction", 0, [name |-> "uk:Turnover", contextRef |-> "c1", unitRef |-> "u1"], " 10 ")>>,
     <<Node("nonFraction", 0, [name |-> "uk:Shares", contextRef |-> "c9", unitRef |-> "u9"], "20")>>,
     <<Node("nonFraction", 0, [name |-> "uk:Count", contextRef |-> "c2", unitRef |-> "u2"], "30")>>,
     <<Node("nonFraction", 0, [name |-> "uk:Bad", contextRef |-> "c3", unitRef |-> "u1"], "abc")>>,
     <<Node("nonFraction", 0, [name |-> "uk:NoUnit", contextRef |-> "c1"], "40")>>}

XbrlFactItems ==
    {<<Node("Turnover", 0, [contextRef |-> "c1", unitRef |-> "u1"], "10")>>,
     <<Node("Name", 0, [contextRef |-> "c1"], " A\n")>>,
     <<Node("Misc", 0, NoAttrs, "x")>>,
     <<Node("Bad", 0, [contextRef |-> "c9", unitRef |-> "u9"], "abc")>>,
     <<Node("Named", 0, [contextRef |-> "c3", unitRef |-> "u2", name |-> "n"], "5")>>,
     <<Node("OnlyUnit", 0, [unitRef |-> "u1"], "6")>>,
     <<Node("Outer", 0, [contextRef |-> "c2"], "A"),
       Node("Inner", 1, [contextRef |-> "c9", unitRef |-> "u2"], "1")>>}

BaseInlineFacts ==
    <<<<Node("nonNumeric", 0, [name |-> "uk:Name", contextRef |-> "c1"], "A")>>,
      <<Node("nonNumeric", 0, [name |-> "uk:Other", contextRef |-> "c2"], "B")>>,
      <<Node("nonFraction", 0, [name |-> "uk:Turnover", contextRef |-> "c3", unitRef |-> "u1"], "10")>>>>

BaseXbrlFacts ==
    <<<<Node("Name", 0, [contextRef |-> "c1"], "A")>>,
      <<Node("Turnover", 0, [contextRef |-> "c2", unitRef |-> "u1"], "10")>>>>

RootAttrs == ("xmlns:uk" :> "http://uk http://uk2") @@ ("lang" :> "en")

SchemaRefItem == <<Node("schemaRef", 0, ("xlink:href" :> " http://schema "), "")>>

\* an inline document: html > (schemaRef, resources > (contexts, units), facts)
InlineDoc(cs, us, fs) ==
    <<Node("html", 0, RootAttrs, "")>>
    \o Place(<<SchemaRefItem>>, 1, 1)
    \o <<Node("resources", 1, NoAttrs, "")>>
    \o Place(cs \o us, 3, 3)
    \o Place(fs, 1, 3 + Size(cs \o us))

\* a bare document, or (another root) one of neither form
BareDoc(root, cs, us, fs) ==
    <<Node(root, 0, RootAttrs, "")>> \o Place(<<SchemaRefItem>> \o cs \o us \o fs, 1, 1)

Documents ==
    {InlineDoc(cs, BaseUnits, BaseInlineFacts) : cs \in CtxSections}
    \cup {BareDoc("xbrl", cs, BaseUnits, BaseXbrlFacts) : cs \in CtxSections}
    \cup {InlineDoc(BaseContexts, us, BaseInlineFacts) : us \in UnitSections}
    \cup {BareDoc("xbrl", BaseContexts, us, BaseXbrlFacts) : us \in UnitSections}
    \cup {InlineDoc(BaseContexts, BaseUnits, fs) : fs \in SeqsUpTo(InlineFactItems, MaxFacts)}
    \cup {BareDoc("xbrl", BaseContexts, BaseUnits, fs) : fs \in SeqsUpTo(XbrlFactItems, MaxFacts)}
    \cup {BareDoc(root, <<>>, <<>>, fs) :
             root \in {"xbrl", "div"},
             fs \in SeqsUpTo({<<Node("html", 0, NoAttrs, "")>>,
                              <<Node("xbrl", 0, NoAttrs, "")>>,
                              <<Node("Name", 0, [contextRef |-> "c1"], "A")>>}, MaxFacts)}

\* no earlier parse of the input
NoRun == [filetype |-> "", pc |-> "", raised |-> NoException, json |-> <<>>]

Init ==
    /\ doc \in Documents
    /\ raise_on_error \in BOOLEAN
    /\ extracted = {}
    /\ pc = "Unparsed"
    /\ filetype = ""
    /\ parser = ""
    /\ schema = None
    /\ namespaces = EmptyDict
    /\ contexts = EmptyDict
    /\ units = EmptyDict
    /\ nonnumeric = <<>>
    /\ numeric = <<>>
    /\ errors = <<>>
    /\ cands = <<>>
    /\ idx = 0
    /\ raised = NoException
    /\ ret = [call |-> "", fields |-> "", value |-> <<>>]
    /\ first = NoRun

Next ==
    \/ _get_parser
    \/ _get_schema
    \/ _get_contexts_begin
    \/ _get_contexts_step
    \/ _get_units_begin
    \/ _get_units_step
    \/ _get_nonnumeric_begin
    \/ _get_nonnumeric_step
    \/ xbrl_get_nonnumeric_step
    \/ _get_numeric_begin
    \/ _get_numeric_step
    \/ xbrl_get_numeric_step
    \/ Return
    \/ to_json
    \/ to_table

Spec == Init /\ [][Next]_vars

(***************************************************************************)
(* Properties                                                              *)
(***************************************************************************)
\* the root element of the document
Root == doc[1]

Facts == nonnumeric \o numeric

NoStageRan ==
    /\ schema = None /\ namespaces = EmptyDict /\ contexts = EmptyDict
    /\ units = EmptyDict /\ nonnumeric = <<>> /\ numeric = <<>> /\ errors = <<>>

\* C1: a document whose root tag is "html" is handled by IXBRLParser with
\* filetype "ixbrl"; one whose root tag is "xbrl" by XBRLParser with filetype
\* "xbrl"; any other document fails with IXBRLParseError and no stage runs.
C1_FormatByRoot ==
    pc # "Unparsed" =>
        /\ Root.tag = "html" => parser = "IXBRLParser" /\ filetype = "ixbrl"
        /\ Root.tag = "xbrl" => parser = "XBRLParser" /\ filetype = "xbrl"
        /\ Root.tag \notin {"html", "xbrl"} =>
              /\ pc = "Failed" /\ raised.exc = "IXBRLParseError"
              /\ parser = "" /\ NoStageRan

\* the reference attributes of a fact's element
ContextRefOf(f) == attrs(f.soup_tag)["contextRef"]
UnitRefOf(f) == attrs(f.soup_tag)["unitRef"]

\* an element on which nothing but the lookup of its references can go wrong
PlainNonnumeric(s) ==
    /\ {"contextRef", "name"} \subseteq DOMAIN attrs(s)
    /\ "continuedAt" \notin DOMAIN attrs(s)

PlainNumeric(s) ==
    /\ {"contextRef", "unitRef"} \subseteq DOMAIN attrs(s)
    /\ DOMAIN attrs(s) \cap {"name", "text", "context", "unit", "soup_tag"}
          \subseteq (IF parser = "XBRLParser" THEN {} ELSE {"name"})
    /\ AllDigits(strip(text(extracted, s))) /\ strip(text(extracted, s)) # ""

\* the elements the running fact loop has gone through
Processed == {cands[i] : i \in 1 .. idx}

UnknownRefRaisesNothing ==
    /\ pc = "InNonNumeric" /\ parser = "IXBRLParser" =>
          \A s \in Processed :
              PlainNonnumeric(s) /\ attrs(s)["contextRef"] \notin DOMAIN contexts
              => \E i \in 1 .. Len(nonnumeric) : nonnumeric[i].soup_tag = s
    /\ pc = "InNumeric" =>
          \A s \in Processed :
              /\ PlainNumeric(s)
              /\ attrs(s)["contextRef"] # "" /\ attrs(s)["unitRef"] # ""
              /\ \/ attrs(s)["contextRef"] \notin DOMAIN contexts
                 \/ attrs(s)["unitRef"] \notin DOMAIN units
              => \E i \in 1 .. Len(numeric) : numeric[i].soup_tag = s

\* C2: a fact whose context (unit) reference is no key of the Context (Unit)
\* table has that literal reference string as its context (unit) field, and
\* the unknown reference makes the element neither an error nor an exception.
C2_UnknownReferenceIsLiteral ==
    /\ \A i \in 1 .. Len(Facts) :
          ContextRefOf(Facts[i]) \notin DOMAIN contexts
          => Facts[i].context = PyStr(ContextRefOf(Facts[i]))
    /\ \A i \in 1 .. Len(numeric) :
          UnitRefOf(numeric[i]) \notin DOMAIN units
          => numeric[i].unit = PyStr(UnitRefOf(numeric[i]))
    /\ UnknownRefRaisesNothing

C2_Witness ==
    /\ pc = "Ready"
    /\ \E i \in 1 .. Len(nonnumeric) :
          ContextRefOf(nonnumeric[i]) \notin DOMAIN contexts
    /\ \E i \in 1 .. Len(numeric) :
          /\ ContextRefOf(numeric[i]) \notin DOMAIN contexts
          /\ UnitRefOf(numeric[i]) \notin DOMAIN units

\* C3: the context field of every fact and the unit field of every numeric
\* fact is never None, also when the referenced unit has no measure child.
C3_ResolvedFieldNeverNull ==
    /\ \A i \in 1 .. Len(Facts) : Facts[i].context # None
    /\ \A i \in 1 .. Len(numeric) : numeric[i].unit # None

\* the element a continuedAt reference leads to: the first element of the tree
\* that carries the id, if it is tagged as a continuation; 0 otherwise
LinkOf(s) ==
    IF "continuedAt" \notin DOMAIN attrs(s) \/ attrs(s)["continuedAt"] = "" THEN 0
    ELSE LET T == {n \in Nodes : /\ IsDescendant(extracted, n, Soup)
                                 /\ "id" \in DOMAIN attrs(n)
                                 /\ attrs(n)["id"] = attrs(s)["continuedAt"]}
         IN IF T = {} THEN 0
            ELSE LET m == CHOOSE x \in T : \A y \in T : x <= y
                 IN IF doc[m].tag = "continuation" THEN m ELSE 0

\* the chain of s, cut after n elements
RECURSIVE ChainOf(_, _)
ChainOf(s, n) ==
    IF n = 0 THEN <<>>
    ELSE LET l == LinkOf(s) IN
         <<s>> \o (IF l # 0 THEN ChainOf(l, n - 1) ELSE <<>>)

Chain(s) == ChainOf(s, Len(doc) + 1)

Acyclic(s) ==
    LET c == Chain(s) IN Cardinality({c[i] : i \in 1 .. Len(c)}) = Len(c)

RECURSIVE ConcatTexts(_)
ConcatTexts(c) ==
    IF c = <<>> THEN "" ELSE text(extracted, c[1]) \o ConcatTexts(Tail(c))

\* the inline non-numeric loop has just gone through the element s
JustProcessed(s) ==
    /\ pc = "InNonNumeric" /\ parser = "IXBRLParser"
    /\ idx > 0 /\ cands[idx] = s

\* C4: the value of an inline non-numeric fact with an acyclic chain is the
\* concatenation of the texts of the chain's elements in link order, trimmed
\* and newline-stripped once at the end; the walk ends without error at the
\* first element with no continuedAt or with one that leads to no continuation.
C4_ContinuationConcatenates ==
    \A s \in Nodes :
        /\ JustProcessed(s)
        /\ Acyclic(s)
        /\ {"contextRef", "name"} \subseteq DOMAIN attrs(s)
        => /\ nonnumeric # <<>>
           /\ nonnumeric[Len(nonnumeric)].soup_tag = s
           /\ nonnumeric[Len(nonnumeric)].value
                 = replace(strip(ConcatTexts(Chain(s))), "\n", "")

C4_Witness ==
    \E s \in Nodes :
        /\ JustProcessed(s)
        /\ Len(Chain(s)) = 3
        /\ <<doc[Chain(s)[1]].text, doc[Chain(s)[2]].text>> = <<"A", "-B">>
        /\ nonnumeric[Len(nonnumeric)].value = "A-B-C"

\* the fact a row of the last to_table result is made from
RowFact(i) == Values(ret.fields)[i]

RowOf(row, f) ==
    /\ row.name = f.name /\ row.value = f.value
    /\ row.unit = (IF "unit" \in DOMAIN f THEN f.unit ELSE None)

\* C5: to_table("numeric") has one row per numeric fact in list order,
\* to_table("nonnumeric") one per non-numeric fact in list order, and
\* to_table("all") the non-numeric rows followed by the numeric rows.
C5_TableSelector ==
    ret.call = "to_table" =>
        LET t == ret.value
            nn == Len(nonnumeric)
        IN /\ ret.fields = "numeric" =>
                 /\ Len(t) = Len(numeric)
                 /\ \A i \in 1 .. Len(t) : RowOf(t[i], numeric[i])
           /\ ret.fields = "nonnumeric" =>
                 /\ Len(t) = nn
                 /\ \A i \in 1 .. Len(t) : RowOf(t[i], nonnumeric[i])
           /\ ret.fields = "all" =>
                 /\ Len(t) = nn + Len(numeric)
                 /\ \A i \in 1 .. nn : RowOf(t[i], nonnumeric[i])
                 /\ \A i \in 1 .. Len(numeric) : RowOf(t[nn + i], numeric[i])

C5_Witness ==
    /\ ret.call = "to_table" /\ ret.fields = "all"
    /\ Len(nonnumeric) >= 1 /\ Len(numeric) >= 1
    /\ Len(ret.value) = Len(nonnumeric) + Len(numeric)

\* the texts a segment may give: tag, dimension and value joined by spaces and
\* trimmed, an absent attribute giving nothing (with or without its separator)
SegmentTexts(seg) ==
    LET dim == IF "dimension" \in DOMAIN seg THEN seg["dimension"] ELSE ""
    IN {strip(seg["tag"] \o " " \o dim \o " " \o seg["value"]),
        strip(join(" ", SelectSeq(<<seg["tag"], dim, seg["value"]>>,
                                  LAMBDA x : x # "")))}

\* C6: for a fact whose context has segments s_0 .. s_(k-1), the row has the
\* columns segment:0 .. segment:(k-1), and segment:i is the space-joined,
\* trimmed concatenation of the tag name, the dimension attribute and the
\* value of s_i, also for a segment without a dimension attribute.
C6_SegmentColumns ==
    ret.call = "to_table" =>
        \A i \in 1 .. Len(ret.value) :
            LET c == RowFact(i).context IN
            IsContext(c) /\ c.segments # <<>> =>
                /\ DOMAIN ret.value[i].segment = 0 .. Len(c.segments) - 1
                /\ \A j \in 0 .. Len(c.segments) - 1 :
                      ret.value[i].segment[j] \in SegmentTexts(c.segments[j + 1])

NoDates(row) == row.instant = None /\ row.startdate = None /\ row.enddate = None

ContextElements ==
    LET c == _get_context_elements(extracted) IN {c[i] : i \in 1 .. Len(c)}

ContextsWithId == {s \in ContextElements : Truthy(get(s, "id"))}

Malformed == {s \in ContextsWithId : ContextRaises(extracted, s)}

DistinctIds ==
    \A a, b \in ContextsWithId : a # b => attrs(a)["id"] # attrs(b)["id"]

\* the context loop has gone through all its elements
ContextsDone ==
    \/ pc = "InContexts" /\ idx = Len(cands)
    \/ pc \in {"InUnits", "InNonNumeric", "InNumeric", "Ready"}

\* the parse stands at the end of the context (unit) resolution, or has
\* just returned (the tables do not change in between)
ContextsResolved ==
    \/ pc = "InContexts" /\ idx = Len(cands)
    \/ pc = "Ready" /\ ret.call = ""

UnitsResolved ==
    \/ pc = "InUnits" /\ idx = Len(cands)
    \/ pc = "Ready" /\ ret.call = ""

\* the parse has returned and no projection has been called yet
JustReturned == pc = "Ready" /\ ret.call = ""

\* the errors recorded for context elements
ContextErrors == SelectSeq(errors, LAMBDA e : e.element \in ContextElements)

\* C8: with raise_on_error off, a malformed context does not end the parse,
\* and when k of the n context elements with (distinct) ids are malformed, the
\* errors list holds exactly k entries for context elements, one per
\* malformed element, and the Context table holds exactly the n-k others.
C8_BestEffortContexts ==
    ~raise_on_error =>
        /\ ~(pc = "Failed" /\ raised.in = "_get_contexts")
        /\ ContextsResolved /\ DistinctIds =>
              LET n == ContextsWithId
                  k == Malformed
                  e == ContextErrors
              IN /\ Len(e) = Cardinality(k)
                 /\ {e[i].element : i \in 1 .. Len(e)} = k
                 /\ DOMAIN contexts = {attrs(s)["id"] : s \in n \ k}
                 /\ Cardinality(DOMAIN contexts) = Cardinality(n) - Cardinality(k)

C8_Witness ==
    /\ ~raise_on_error /\ pc = "Ready" /\ DistinctIds
    /\ Cardinality(ContextsWithId) = 3 /\ Cardinality(Malformed) = 1
    /\ Len(errors) = 1 /\ Cardinality(DOMAIN contexts) = 2

\* the ids of the context elements the loop has gone through
ProcessedIds == {attrs(s)["id"] : s \in {x \in Processed : Truthy(get(x, "id"))}}

\* C9: with raise_on_error on, the first failing element is recorded in the
\* errors list and its exception leaves the parse; no further element of the
\* stage and no later stage is processed.
C9_FailFastAborts ==
    raise_on_error =>
        /\ Len(errors) <= 1
        /\ Len(errors) = 1 =>
              /\ pc = "Failed"
              /\ raised.exc = errors[1].error
              /\ errors[1].element = cands[idx + 1]
        /\ pc = "Failed" =>
              /\ ~ENABLED Next
              /\ raised.in # "_get_parser" => Len(errors) = 1
        /\ pc = "Failed" /\ raised.in = "_get_contexts" =>
              /\ DOMAIN contexts \subseteq ProcessedIds
              /\ units = EmptyDict /\ nonnumeric = <<>> /\ numeric = <<>>
        /\ pc = "Failed" /\ raised.in = "_get_nonnumeric" =>
              /\ \A i \in 1 .. Len(nonnumeric) : nonnumeric[i].soup_tag \in Processed
              /\ numeric = <<>>
        /\ pc = "Failed" /\ raised.in = "_get_numeric" =>
              \A i \in 1 .. Len(numeric) : numeric[i].soup_tag \in Processed

C9_Witness ==
    /\ raise_on_error /\ pc = "Failed" /\ raised.in = "_get_contexts"
    /\ idx + 1 < Len(cands)
    /\ Len(errors) = 1

\* the parse is at a position from which one of its steps can be taken: a
\* stage is about to begin, or a loop has an element left or can hand over
\* to the next stage
CanStep ==
    \/ pc \in {"Unparsed", "FormatDetected", "SchemaLoaded"}
    \/ /\ pc \in {"InContexts", "InUnits", "InNonNumeric", "InNumeric"}
       /\ idx <= Len(cands)
       /\ parser \in {"IXBRLParser", "XBRLParser"}

\* C10: with raise_on_error off, the parse of a document whose format is
\* recognized never fails: no exception leaves it, and until it has returned
\* it can always take its next step.
C10_BestEffortCompletes ==
    ~raise_on_error /\ parser # "" =>
        /\ pc # "Failed" /\ raised = NoException
        /\ pc # "Ready" => CanStep

C10_Witness ==
    /\ ~raise_on_error /\ pc = "Ready"
    /\ \E i, j \in 1 .. Len(errors) :
          /\ doc[errors[i].element].tag = "nonNumeric"
          /\ doc[errors[j].element].tag = "nonFraction"

\* the elements a fact pass takes as its candidates: every nonNumeric
\* (nonFraction) element for the inline parser; for the bare parser the
\* elements under the root that carry a context reference and no (a) unit
\* reference
IsNonnumericCandidate(s) ==
    IF parser = "XBRLParser"
    THEN /\ "contextRef" \in DOMAIN attrs(s) /\ attrs(s)["contextRef"] # ""
         /\ ("unitRef" \notin DOMAIN attrs(s) \/ attrs(s)["unitRef"] = "")
    ELSE doc[s].tag = "nonNumeric"

IsNumericCandidate(s) ==
    IF parser = "XBRLParser"
    THEN /\ "contextRef" \in DOMAIN attrs(s) /\ attrs(s)["contextRef"] # ""
         /\ "unitRef" \in DOMAIN attrs(s) /\ attrs(s)["unitRef"] # ""
    ELSE doc[s].tag = "nonFraction"

\* the element whose descendants the fact passes scan: the whole tree for the
\* inline parser, the first element tagged as the root for the bare parser
ScannedRoot ==
    IF parser = "XBRLParser"
    THEN CHOOSE n \in Nodes : doc[n].tag = "xbrl" /\ \A m \in Nodes : doc[m].tag = "xbrl" => n <= m
    ELSE Soup

\* the candidates the non-numeric (numeric) pass has gone through so far
NonnumericDone ==
    IF pc = "InNonNumeric"
    THEN {s \in Processed : IsNonnumericCandidate(s)}
    ELSE IF pc \in {"InNumeric", "Ready"}
    THEN {s \in Nodes : IsDescendant({}, s, ScannedRoot) /\ IsNonnumericCandidate(s)}
    ELSE {}

NumericDone ==
    IF pc = "InNumeric"
    THEN {s \in Processed : IsNumericCandidate(s)}
    ELSE IF pc = "Ready"
    THEN {cands[i] : i \in {j \in 1 .. Len(cands) : IsNumericCandidate(cands[j])}}
    ELSE {}

\* the stage an error entry comes from
StageOf(e) ==
    IF doc[e.element].tag = "context" THEN 1
    ELSE IF IsNonnumericCandidate(e.element) THEN 2
    ELSE IF IsNumericCandidate(e.element) THEN 3
    ELSE 0

ErrorsOfStage(n) == SelectSeq(errors, LAMBDA e : e.element # 0 /\ StageOf(e) = n)

ElementsOf(seq) == {seq[i].element : i \in 1 .. Len(seq)}

SoupTagsOf(seq) == {seq[i].soup_tag : i \in 1 .. Len(seq)}

\* C11: with raise_on_error off, the errors list holds exactly one entry per
\* element that failed, each entry with its cause and its element, the
\* entries in encounter order (contexts, non-numeric candidates, numeric
\* candidates, each in document order); and in each fact pass the facts
\* produced and the errors recorded make up the candidates gone through,
\* each candidate counted once.
C11_ErrorAccounting ==
    ~raise_on_error =>
        /\ \A i \in 1 .. Len(errors) :
              /\ errors[i].element \in Nodes \ {Soup}
              /\ StageOf(errors[i]) \in 1 .. 3
              /\ errors[i].error # ""
        /\ \A i, j \in 1 .. Len(errors) :
              i < j => \/ StageOf(errors[i]) < StageOf(errors[j])
                       \/ /\ StageOf(errors[i]) = StageOf(errors[j])
                          /\ errors[i].element < errors[j].element
        /\ ContextsResolved => ElementsOf(ErrorsOfStage(1)) = Malformed
        /\ pc = "InNonNumeric" \/ JustReturned =>
              /\ Len(nonnumeric) + Len(ErrorsOfStage(2)) = Cardinality(NonnumericDone)
              /\ SoupTagsOf(nonnumeric) \cup ElementsOf(ErrorsOfStage(2)) = NonnumericDone
              /\ SoupTagsOf(nonnumeric) \cap ElementsOf(ErrorsOfStage(2)) = {}
        /\ Len(numeric) + Len(ErrorsOfStage(3)) = Cardinality(NumericDone)
        /\ SoupTagsOf(numeric) \cup ElementsOf(ErrorsOfStage(3)) = NumericDone
        /\ SoupTagsOf(numeric) \cap ElementsOf(ErrorsOfStage(3)) = {}

C11_Witness ==
    /\ ~raise_on_error /\ pc = "Ready"
    /\ Len(errors) = 2
    /\ StageOf(errors[1]) = 2 /\ StageOf(errors[2]) = 3
    /\ NonnumericDone = {errors[1].element}
    /\ NumericDone = {errors[2].element}

(***************************************************************************)
(* A second IXBRL(f) on the same input, after the first has ended          *)
(***************************************************************************)
\* a second parse that works on the tree the first parse left behind
FreshTree_Stale == extracted

\* BeautifulSoup(f.read(), ...) builds a tree of its own for every parse
FreshTree == {}

\* what a parse gives its caller: the exception or the filetype and the dump
Outcome == [filetype |-> filetype, pc |-> pc, raised |-> raised, json |-> JsonOf]

Reparse ==
    /\ pc \in {"Ready", "Failed"}
    /\ first = NoRun
    /\ first' = Outcome
    /\ extracted' = FreshTree
    /\ pc' = "Unparsed"
    /\ filetype' = ""
    /\ parser' = ""
    /\ schema' = None
    /\ namespaces' = EmptyDict
    /\ contexts' = EmptyDict
    /\ units' = EmptyDict
    /\ nonnumeric' = <<>>
    /\ numeric' = <<>>
    /\ errors' = <<>>
    /\ cands' = <<>>
    /\ idx' = 0
    /\ raised' = NoException
    /\ ret' = [call |-> "", fields |-> "", value |-> <<>>]
    /\ UNCHANGED <<doc, raise_on_error>>

\* the inputs that are parsed twice
TwiceInlineFacts ==
    {f \in InlineFactItems :
        \/ Len(f) = 5
        \/ Len(f) = 3
        \/ Len(f) = 2 /\ "id" \in DOMAIN f[2].attrs /\ f[2].attrs["id"] = "k5"
        \/ Len(f) = 1 /\ f[1].tag = "nonFraction" /\ f[1].text \in {" 10 ", "abc"}}

TwiceDocuments ==
    {InlineDoc(cs, BaseUnits, BaseInlineFacts) : cs \in CtxSections}
    \cup {InlineDoc(BaseContexts, BaseUnits, fs) : fs \in SeqsUpTo(TwiceInlineFacts, MaxFacts)}
    \cup {BareDoc("xbrl", BaseContexts, BaseUnits, fs) : fs \in SeqsUpTo(XbrlFactItems, MaxFacts)}

InitTwice == Init /\ doc \in TwiceDocuments

NextTwice == Next \/ Reparse

SpecTwice == InitTwice /\ [][NextTwice]_vars

HasFact(s) == \E i \in 1 .. Len(nonnumeric) : nonnumeric[i].soup_tag = s

AllExclusions(s) ==
    {n \in Nodes \ {Soup} : doc[n].tag = "exclude" /\ IsDescendant({}, n, s)}

\* C14: the value of an inline non-numeric fact holds no text of any
\* exclusion sub-element nested inside its element, however many there are:
\* it is the trimmed, newline-stripped text of the element without them.
C14_ExclusionsRemoved ==
    \A s \in Nodes \ {Soup} :
        /\ JustProcessed(s)
        /\ HasFact(s)
        /\ "continuedAt" \notin DOMAIN attrs(s)
        => nonnumeric[Len(nonnumeric)].value
              = FactValue(text(extracted \cup AllExclusions(s), s))

\* the facts the inline numeric pass produces from the candidates c in tree ex
RECURSIVE NumericFacts(_, _)
NumericFacts(ex, c) ==
    IF c = <<>> THEN <<>>
    ELSE (IF TryNumeric(ex, c[1]).exc = "" THEN <<TryNumeric(ex, c[1]).fact>> ELSE <<>>)
         \o NumericFacts(ex, Tail(c))

\* the candidates and the facts of a numeric pass that runs before the
\* non-numeric pass, on the tree as it was built
NumericCandidatesFirst == find_all({}, Soup, {"nonFraction"})

NumericFirst == NumericFacts({}, NumericCandidatesFirst)

\* C15: the numeric pass gives the same facts whether it runs before or after
\* the non-numeric pass; the exclusions the non-numeric pass removes do not
\* change the candidates the numeric pass finds.
C15_PassOrderIndependent ==
    parser = "IXBRLParser" /\ ~raise_on_error /\ pc = "Ready" =>
        /\ cands = NumericCandidatesFirst
        /\ numeric = NumericFirst

\* the place of a position in the order of the stages
Rank(p) ==
    CASE p = "Unparsed" -> 0
      [] p = "FormatDetected" -> 1
      [] p = "SchemaLoaded" -> 2
      [] p = "InContexts" -> 3
      [] p = "InUnits" -> 4
      [] p = "InNonNumeric" -> 5
      [] p = "InNumeric" -> 6
      [] p = "Ready" -> 7
      [] OTHER -> 8

\* the state of a parse between its stages
StagesInOrderState ==
    /\ Rank(pc) < 3 => contexts = EmptyDict
    /\ Rank(pc) < 4 => units = EmptyDict
    /\ Rank(pc) < 5 => nonnumeric = <<>>
    /\ Rank(pc) < 6 => numeric = <<>>
    /\ Rank(pc) \in 5 .. 7 =>
          /\ \A i \in 1 .. Len(Facts) :
                Facts[i].context = ResolveContext(ContextRefOf(Facts[i]))
          /\ \A i \in 1 .. Len(numeric) :
                numeric[i].unit = ResolveUnit(UnitRefOf(numeric[i]))

\* a step of a parse: it stays in its stage, enters the next one, or fails
StagesInOrderStep ==
    /\ \/ Rank(pc') = Rank(pc)
       \/ Rank(pc') = Rank(pc) + 1
       \/ pc' = "Failed" /\ pc # "Ready"
    /\ contexts' # contexts => pc' = "InContexts"
    /\ units' # units => pc' = "InUnits"
    /\ Rank(pc') >= 5 => contexts' = contexts /\ units' = units
    /\ nonnumeric' # nonnumeric => pc' = "InNonNumeric" \/ (pc = "InNonNumeric" /\ pc' = "Failed")
    /\ numeric' # numeric => pc' = "InNumeric" \/ (pc = "InNumeric" /\ pc' = "Failed")

\* C16: the stages run once each in the order format detection, schema,
\* contexts, units, non-numeric facts, numeric facts; the two tables are
\* complete before the first fact is extracted and do not change afterwards,
\* so every fact's context and unit are resolved against the complete tables.
C16_StageOrder == []StagesInOrderState /\ [][StagesInOrderStep]_vars

C16_Witness ==
    /\ pc = "Ready"
    /\ Cardinality(DOMAIN contexts) = 3 /\ Cardinality(DOMAIN units) = 1
    /\ Len(nonnumeric) = 1 /\ Len(numeric) = 1
    /\ IsContext(nonnumeric[1].context) /\ IsContext(numeric[1].context)

\* a step appends at most one entry to the errors list and changes no entry
ErrorsGrow ==
    /\ Len(errors') \in {Len(errors), Len(errors) + 1}
    /\ SubSeq(errors', 1, Len(errors)) = errors

\* C17: the errors list is append-only through the whole parse: in every
\* step of every stage the list before the step is a prefix of the list after
\* it, also in the steps in which a stage resets its table or fact list.
C17_ErrorsAppendOnly == [][ErrorsGrow]_vars

C17_Witness ==
    /\ pc = "InNumeric" /\ idx = 0 /\ numeric = <<>>
    /\ Len(errors) = 2
    /\ StageOf(errors[1]) = 1 /\ StageOf(errors[2]) = 1

\* the parsed document
Parsed == <<schema, namespaces, contexts, units, nonnumeric, numeric, errors>>

\* a call of a projection leaves the parsed document, and the tree, as it was
ProjectionKeeps ==
    pc = "Ready" /\ ret'.call \in {"to_json", "to_table"} =>
        Parsed' = Parsed /\ extracted' = extracted /\ pc' = pc

\* the value a projection returned is the one the same call returns now
ProjectionRepeats ==
    /\ ret.call = "to_json" =>
          /\ ret.value = JsonOf
          /\ ret.value.errors = Len(errors)
    /\ ret.call = "to_table" => ret.value = TableOf(ret.fields)

\* C18: to_json and to_table are read-only: any sequence of calls, with any
\* selector, leaves schema, namespaces, both tables, both fact lists and the
\* errors list unchanged, a repeated call returns an equal result, and the
\* errors field of the dump is the length of the errors list.
C18_ProjectionsReadOnly == []ProjectionRepeats /\ [][ProjectionKeeps]_vars

C18_Witness ==
    /\ pc = "Ready" /\ ret.call = "to_table" /\ ret.fields = "nonnumeric"
    /\ Len(ret.value) = 2 /\ Len(errors) = 2 /\ Len(numeric) = 1

\* the unit elements of the document that carry an id
UnitsWithId ==
    LET c == _get_unit_elements(extracted) IN
    {c[i] : i \in {j \in 1 .. Len(c) : IsStr(get(c[j], "id"))}}

\* the last element of S in document order
LastOf(S) == CHOOSE s \in S : \A t \in S : t <= s

SameId(S, s) == {t \in S : attrs(t)["id"] = attrs(s)["id"]}

\* the Unit table after resolution: last write wins
UnitsLastWriteWins ==
    UnitsResolved =>
        LET u == UnitsWithId IN
        /\ DOMAIN units = {attrs(s)["id"] : s \in u}
        /\ \A s \in u :
              units[attrs(s)["id"]] = UnitMeasure(extracted, LastOf(SameId(u, s)))

\* the facts resolve their references to the entries of the tables
FactsResolveToEntries ==
    /\ \A i \in 1 .. Len(Facts) :
          ContextRefOf(Facts[i]) \in DOMAIN contexts
          => Facts[i].context = contexts[ContextRefOf(Facts[i])]
    /\ \A i \in 1 .. Len(numeric) :
          UnitRefOf(numeric[i]) \in DOMAIN units
          => numeric[i].unit = units[UnitRefOf(numeric[i])]

CountFacts(seq, s) == Cardinality({i \in 1 .. Len(seq) : seq[i].soup_tag = s})

\* the entries the fact passes recorded for s (a context element has its
\* entry from the context stage)
CountErrors(s) ==
    Cardinality({i \in 1 .. Len(errors) :
                    errors[i].element = s /\ StageOf(errors[i]) # 1})

\* the elements under the root of a bare document
UnderRoot == {s \in Nodes \ {Soup} : IsDescendant({}, s, 1)}

HasRef(s, ref) == ref \in DOMAIN attrs(s) /\ attrs(s)[ref] # ""

BareParsed == parser = "XBRLParser" /\ Root.tag = "xbrl" /\ pc = "Ready"

\* C20 as stated: in a bare document an element with a context and a unit
\* reference gives exactly one numeric fact and no non-numeric fact, one with
\* a context reference and no unit reference exactly one non-numeric fact and
\* no numeric fact, one with neither no fact and no error; no element is in
\* both fact lists.
C20_BareClassification ==
    BareParsed =>
        \A s \in UnderRoot :
            /\ HasRef(s, "contextRef") /\ HasRef(s, "unitRef") =>
                  CountFacts(numeric, s) = 1 /\ CountFacts(nonnumeric, s) = 0
            /\ HasRef(s, "contextRef") /\ ~HasRef(s, "unitRef") =>
                  CountFacts(nonnumeric, s) = 1 /\ CountFacts(numeric, s) = 0
            /\ ~HasRef(s, "contextRef") /\ ~HasRef(s, "unitRef") =>
                  /\ CountFacts(nonnumeric, s) = 0 /\ CountFacts(numeric, s) = 0
                  /\ CountErrors(s) = 0
            /\ CountFacts(nonnumeric, s) = 0 \/ CountFacts(numeric, s) = 0

\* C20 amended: an element with both references gives exactly one numeric
\* fact, or, when the construction of the fact raises, no fact and exactly
\* one entry of the errors list; the rest as stated.
C20_BareClassificationOrError ==
    BareParsed =>
        \A s \in UnderRoot :
            /\ HasRef(s, "contextRef") /\ HasRef(s, "unitRef") =>
                  /\ CountFacts(numeric, s) + CountErrors(s) = 1
                  /\ CountFacts(nonnumeric, s) = 0
                  /\ CountErrors(s) = 1 <=> XbrlTryNumeric(extracted, s).exc # ""
            /\ HasRef(s, "contextRef") /\ ~HasRef(s, "unitRef") =>
                  /\ CountFacts(nonnumeric, s) = 1 /\ CountFacts(numeric, s) = 0
                  /\ CountErrors(s) = 0
            /\ ~HasRef(s, "contextRef") =>
                  /\ CountFacts(nonnumeric, s) = 0 /\ CountFacts(numeric, s) = 0
                  /\ CountErrors(s) = 0
            /\ CountFacts(nonnumeric, s) = 0 \/ CountFacts(numeric, s) = 0

C20_Witness ==
    /\ BareParsed
    /\ \E s, t \in UnderRoot :
          /\ doc[t].parent = s
          /\ CountFacts(nonnumeric, s) = 1 /\ CountFacts(numeric, t) = 1
    /\ \E s \in UnderRoot :
          HasRef(s, "contextRef") /\ HasRef(s, "unitRef") /\ CountErrors(s) = 1

(***************************************************************************)
(* The non-numeric traversal and the removal of exclusions                 *)
(***************************************************************************)
\* the elements that match the non-numeric tag in the tree as parsed, in
\* document order
Snapshot == find_all({}, Soup, {"nonNumeric"})

\* the inline non-numeric loop is running, or has just raised
InNonnumericPass ==
    /\ parser = "IXBRLParser"
    /\ pc = "InNonNumeric" \/ (pc = "Failed" /\ raised.in = "_get_nonnumeric")

\* the inline non-numeric loop has gone through its whole list
NonnumericPassOver ==
    /\ parser = "IXBRLParser"
    /\ pc \in {"InNumeric", "Ready"} \/ (pc = "Failed" /\ raised.in = "_get_numeric")

\* the facts and the error entries made from s
Outcomes(s) ==
    CountFacts(nonnumeric, s)
    + Cardinality({i \in 1 .. Len(errors) : errors[i].element = s})

\* the removal of s or of an element above s has detached s from the tree
Detached(s) == ~IsDescendant(extracted, s, Soup)

\* the number of candidates the loop has taken up: the failing one included
Taken == IF pc = "Failed" THEN idx + 1 ELSE idx

TraversalState ==
    /\ parser = "IXBRLParser" /\ pc = "InNonNumeric" /\ idx = 0 => extracted = {}
    /\ InNonnumericPass =>
          /\ cands = Snapshot
          /\ \A i \in 1 .. Len(cands) :
                Outcomes(cands[i]) = IF i <= Taken THEN 1 ELSE 0
          /\ Len(nonnumeric) + Len(ErrorsOfStage(2)) = Taken
    /\ InNonnumericPass \/ NonnumericPassOver =>
          /\ \A i, j \in 1 .. Len(nonnumeric) :
                i < j => nonnumeric[i].soup_tag < nonnumeric[j].soup_tag
          /\ \A i, j \in 1 .. Len(errors) :
                /\ i < j
                /\ doc[errors[i].element].tag = "nonNumeric"
                /\ doc[errors[j].element].tag = "nonNumeric"
                => errors[i].element < errors[j].element
    /\ NonnumericPassOver =>
          /\ \A i \in 1 .. Len(Snapshot) : Outcomes(Snapshot[i]) = 1
          /\ Len(nonnumeric) + Len(ErrorsOfStage(2)) = Len(Snapshot)

TraversalStep ==
    pc = "InNonNumeric" /\ parser = "IXBRLParser" /\ pc' \in {"InNonNumeric", "Failed"}
    => /\ cands' = cands
       /\ extracted \subseteq extracted'
       /\ idx' = idx + 1 \/ (pc' = "Failed" /\ idx' = idx)
       /\ \A s \in Nodes : s = cands[idx + 1] => Outcomes(s)' = 1

\* C21: the inline non-numeric pass goes through the list of the elements
\* that matched the non-numeric tag before any removal: the list is that of
\* the tree as parsed and no step changes it, each step takes the next
\* element of it, and every element taken up has exactly one fact or one
\* error entry, facts and entries in document order, also when the removal of
\* an earlier candidate's exclusion has detached it; a pass that runs to its
\* end has taken up every element of the list (with raise_on_error on, the
\* first failure ends the pass at the failing element).
C21_TraversalUndisturbed == []TraversalState /\ [][TraversalStep]_vars

C21_Witness ==
    /\ NonnumericPassOver /\ pc = "Ready"
    /\ \E s, t \in Nodes :
          /\ s < t
          /\ doc[s].tag = "nonNumeric" /\ doc[t].tag = "nonNumeric"
          /\ IsDescendant({}, t, s)
          /\ Detached(t) /\ ~Detached(s)
          /\ CountFacts(nonnumeric, s) = 1 /\ CountFacts(nonnumeric, t) = 1

(***************************************************************************)
(* The errors list of a parse with raise_on_error on                       *)
(***************************************************************************)
\* the value raise_on_error takes when the caller of IXBRL(f) leaves it out
DefaultRaiseOnError == TRUE

\* IXBRL(f) has returned its object
Returned == pc = "Ready"

\* C22: with raise_on_error on, which is the constructor's default, the
\* errors list never holds more than one entry, and an entry is there only
\* once its exception is leaving the constructor; so whenever the
\* constructor returns an object the list is empty, and to_json of that
\* object gives errors = 0.
C22_FailFastNoErrors ==
    raise_on_error = DefaultRaiseOnError =>
        /\ Len(errors) <= 1
        /\ errors # <<>> => ~Returned /\ raised # NoException
        /\ Returned => errors = <<>> /\ JsonOf.errors = 0
        /\ Returned /\ ret.call = "to_json" => ret.value.errors = 0

C22_Witness ==
    /\ raise_on_error = DefaultRaiseOnError
    /\ Returned /\ ret.call = "to_json"
    /\ ret.value.errors = 0
    /\ Len(ret.value.nonnumeric) >= 1 /\ Len(ret.value.numeric) >= 1
====
